---- MODULE Spec2Model ----
(***************************************************************************)
(* Model of the terminable_threads crate: a cancellation flag of type      *)
(* Arc<Mutex<AtomicBool>> shared between a supervisor and its worker       *)
(* threads, and the four handle types built on it:                         *)
(*   "Threads"  TerminableThreads<T, N>              (lib.rs)              *)
(*   "Group"    TerminableThreadGroup<T, F>          (group.rs)            *)
(*   "Array"    TerminableThreadGroupArray<T, F, N>  (group.rs)            *)
(*   "Handle"   TerminableThreadHandle<T, F>         (single.rs)           *)
(* The supervisor thread constructs one of them, calls terminate and join; *)
(* the worker threads run caller-supplied closures concurrently.           *)
(***************************************************************************)
EXTENDS Integers, Sequences, FiniteSets, TLC

\* ------------------------------------------------------------------ bounds
MaxN == 2            \* largest arity N / number of functions
MaxTerminate == 2    \* terminate() calls the supervisor makes at most

Modes == {"const", "poll", "fault"}

VARIABLES
    kind,        \* which handle type the supervisor constructed ("none" before)
    pc,          \* position of the supervisor thread
    n,           \* arity: const N, funcs.len(), or 1 for a single handle
    funcs,       \* the functions given to new(): their behaviours, in order
    threads,     \* _threads / inner_threads: worker ids in handle order
    flag,        \* value of the AtomicBool
    holder,      \* worker holding the MutexGuard, 0 when the Mutex is free
    poisoned,    \* poison state of the Mutex
    workers,     \* spawned worker threads, in spawn order
    outOfOrder,  \* some thread finished before one spawned earlier
    joined,      \* thread results collected so far by join
    result,      \* value join returned
    joinArg,     \* signal_terminate of the join call: "none", "true", "false"
    termDone,    \* terminate() calls that returned normally
    refs         \* which flag cell each Arc points to: owned, the one of the
                 \* builder / group / handle; handed, the one new() returned
                 \* to the caller (0: no such Arc)

vars == <<kind, pc, n, funcs, threads, flag, holder, poisoned, workers,
          outOfOrder, joined, result, joinArg, termDone, refs>>

\* ------------------------------------------------------------ data values
\* std::thread::Result<T>: Ok(value) or Err(panic payload)
Ok(v) == [ok |-> TRUE, val |-> v]
Err(p) == [ok |-> FALSE, val |-> p]

\* Option<Box<dyn Any + Send>>
None == [some |-> FALSE, val |-> 0]
Some(p) == [some |-> TRUE, val |-> p]

\* what join returned: Ok(values) or Err(per-position options / one payload)
NoResult == [tag |-> "None", vals |-> <<>>, errs |-> <<>>]
ResOk(vs) == [tag |-> "Ok", vals |-> vs, errs |-> <<>>]
ResErr(es) == [tag |-> "Err", vals |-> <<>>, errs |-> es]

\* the value that means "stop requested" for each handle type: the one its
\* terminate stores
StopRequested(k) == IF k = "Threads" THEN TRUE ELSE FALSE

BoolStr(b) == IF b THEN "true" ELSE "false"

\* the constant of the i-th closure: the value it returns, or the payload
\* it panics with; the closures' constants are pairwise distinct
Const(i) == IF i = 1 THEN 42 ELSE 100 * (i - 1)

\* a deep copy instead of a shared reference
ArcCloneCopy(c) == c + 1

\* Arc::clone: a new reference to the same cell
ArcClone(c) == c

\* the i-th spawned thread, running a closure of behaviour m; cell: the flag
\* cell the closure captured a reference to (0: it captured none); read: the
\* value a cooperative closure last loaded from the flag
NewWorker(i, m, c) ==
    [mode |-> m, val |-> Const(i), cell |-> c, state |-> "running",
     read |-> IF m = "poll" THEN "none" ELSE "unused"]

IsFinished(w) == workers[w].state \in {"returned", "panicked"}

\* JoinHandle::join of worker w, once it finished
ThreadResult(w) ==
    IF workers[w].state = "returned" THEN Ok(workers[w].val)
    ELSE Err(workers[w].val)

Min(a, b) == IF a <= b THEN a ELSE b

\* Iterator::zip: stops at the shorter of the two
Zip(a, b) == [i \in 1..Min(Len(a), Len(b)) |-> <<a[i], b[i]>>]

Perms(k) == {s \in [1..k -> 1..k] : \A i, j \in 1..k : s[i] = s[j] => i = j}

FuncSeqs == UNION {[1..k -> Modes] : k \in 0..MaxN}

\* ------------------------------------------------------------------- Init
Init ==
    /\ kind = "none"
    /\ pc = "start"
    /\ n = 0
    /\ funcs = <<>>
    /\ threads = <<>>
    /\ flag = FALSE
    /\ holder = 0
    /\ poisoned = FALSE
    /\ workers = <<>>
    /\ outOfOrder = FALSE
    /\ joined = <<>>
    /\ result = NoResult
    /\ joinArg = "none"
    /\ termDone = 0
    /\ refs = [owned |-> 0, handed |-> 0]

\* ----------------------------------------------------------- construction
\* TerminableThreads::build / TerminableThreadsBuilder::new for arity nn
BuilderNew(nn) ==
    /\ pc = "start"
    /\ kind' = "Threads"
    /\ n' = nn
    /\ flag' = FALSE
    /\ LET arc == 1       \* Arc::new: the cell of this flag
       IN refs' = [owned |-> ArcClone(arc), handed |-> arc]
    /\ pc' = "builder"
    /\ UNCHANGED <<funcs, threads, holder, poisoned, workers, outOfOrder,
                   joined, result, joinArg, termDone>>

\* the caller spawns a thread between build() and build_with_threads; the
\* closure may or may not have captured the flag the builder handed out
CallerSpawn(m, f) ==
    /\ pc = "builder"
    /\ Len(workers) < n
    /\ (m # "const") => f
    /\ workers' = Append(workers,
          NewWorker(Len(workers) + 1, m, IF f THEN ArcClone(refs.handed) ELSE 0))
    /\ UNCHANGED refs
    /\ UNCHANGED <<kind, pc, n, funcs, threads, flag, holder, poisoned,
                   outOfOrder, joined, result, joinArg, termDone>>

\* TerminableThreadsBuilder::build_with_threads(threads): ts is the array of
\* the N handles, in the order the caller passes them
BuildWithThreads(ts) ==
    /\ pc = "builder"
    /\ Len(workers) = n
    /\ threads' = ts
    /\ pc' = "idle"
    /\ UNCHANGED <<kind, n, funcs, flag, holder, poisoned, workers, outOfOrder,
                   joined, result, joinArg, termDone>>
    /\ UNCHANGED refs

\* TerminableThreadGroup::new(funcs)
GroupNew(fs) ==
    /\ pc = "start"
    /\ LET arc_atom_bool == 1     \* Arc::new: the cell of this flag
           arc_clones == <<>>     \* Vec::with_capacity: capacity, length 0
           pairs == Zip(fs, arc_clones)
       IN /\ workers' = [i \in 1..Len(pairs) |->
                            NewWorker(i, pairs[i][1], pairs[i][2])]
          /\ threads' = [i \in 1..Len(pairs) |-> i]
          /\ refs' = [owned |-> arc_atom_bool, handed |-> 0]
    /\ kind' = "Group"
    /\ n' = Len(fs)
    /\ funcs' = fs
    /\ flag' = TRUE
    /\ pc' = "idle"
    /\ UNCHANGED <<holder, poisoned, outOfOrder, joined, result, joinArg, termDone>>

\* TerminableThreadGroupArray::new(funcs)
ArrayNew(fs) ==
    /\ pc = "start"
    /\ LET arc_atom_bool == 1     \* Arc::new: the cell of this flag
       IN /\ workers' = [i \in 1..Len(fs) |->
                            NewWorker(i, fs[i], ArcClone(arc_atom_bool))]
          /\ refs' = [owned |-> ArcClone(arc_atom_bool), handed |-> 0]
    /\ threads' = [i \in 1..Len(fs) |-> i]
    /\ kind' = "Array"
    /\ n' = Len(fs)
    /\ funcs' = fs
    /\ flag' = TRUE
    /\ pc' = "idle"
    /\ UNCHANGED <<holder, poisoned, outOfOrder, joined, result, joinArg, termDone>>

\* a TerminableThreadHandle around one spawned closure whose flag starts in
\* the running state
HandleSpawn(f) ==
    /\ pc = "start"
    /\ LET running == 1           \* the cell of this flag
       IN /\ workers' = <<NewWorker(1, f, ArcClone(running))>>
          /\ refs' = [owned |-> running, handed |-> 0]
    /\ threads' = <<1>>
    /\ kind' = "Handle"
    /\ n' = 1
    /\ funcs' = <<f>>
    /\ flag' = TRUE
    /\ pc' = "idle"
    /\ UNCHANGED <<holder, poisoned, outOfOrder, joined, result, joinArg, termDone>>

\* ---------------------------------------------------------------- workers
\* a closure takes the flag's lock and loads the value; a cooperative
\* ("poll") closure does so until it has read stop-requested, and loads the
\* value from the guard also when lock() reports the Mutex poisoned
WorkerLock(w) ==
    /\ w \in 1..Len(workers)
    /\ workers[w].state = "running"
    /\ workers[w].cell # 0
    /\ workers[w].cell = refs.owned
    /\ workers[w].mode \in {"poll", "fault"}
    /\ workers[w].mode = "poll" => workers[w].read # BoolStr(StopRequested(kind))
    /\ holder = 0
    /\ holder' = w
    /\ workers' = [workers EXCEPT
          ![w].state = "locked",
          ![w].read = IF @ = "unused" THEN @ ELSE BoolStr(flag)]
    /\ UNCHANGED <<kind, pc, n, funcs, threads, flag, poisoned, outOfOrder,
                   joined, result, joinArg, termDone>>
    /\ UNCHANGED refs

\* the closure drops the MutexGuard
WorkerUnlock(w) ==
    /\ w \in 1..Len(workers)
    /\ workers[w].state = "locked"
    /\ holder' = 0
    /\ workers' = [workers EXCEPT ![w].state = "running"]
    /\ UNCHANGED <<kind, pc, n, funcs, threads, flag, poisoned, outOfOrder,
                   joined, result, joinArg, termDone>>
    /\ UNCHANGED refs

\* the closure returns its value: at once ("const"), or as soon as it has
\* read stop-requested ("poll")
WorkerReturn(w) ==
    /\ w \in 1..Len(workers)
    /\ workers[w].state = "running"
    /\ IF workers[w].mode = "poll"
       THEN workers[w].read = BoolStr(StopRequested(kind))
       ELSE workers[w].mode = "const"
    /\ workers' = [workers EXCEPT ![w].state = "returned"]
    /\ outOfOrder' = (outOfOrder \/ \E u \in 1..(w - 1) : ~IsFinished(u))
    /\ UNCHANGED <<kind, pc, n, funcs, threads, flag, holder, poisoned,
                   joined, result, joinArg, termDone>>
    /\ UNCHANGED refs

\* the closure panics with its payload; unwinding while it holds the
\* MutexGuard releases the lock and poisons the Mutex
WorkerPanic(w) ==
    /\ w \in 1..Len(workers)
    /\ workers[w].mode = "fault"
    /\ workers[w].state \in {"running", "locked"}
    /\ workers' = [workers EXCEPT ![w].state = "panicked"]
    /\ outOfOrder' = (outOfOrder \/ \E u \in 1..(w - 1) : ~IsFinished(u))
    /\ IF workers[w].state = "locked"
       THEN holder' = 0 /\ poisoned' = TRUE
       ELSE UNCHANGED <<holder, poisoned>>
    /\ UNCHANGED <<kind, pc, n, funcs, threads, flag, joined, result,
                   joinArg, termDone>>
    /\ UNCHANGED refs

\* ------------------------------------------------------------- supervisor
\* terminate(&self) is called; it first blocks in Mutex::lock
TerminateCall ==
    /\ pc = "idle"
    /\ termDone < MaxTerminate
    /\ pc' = "terminating"
    /\ UNCHANGED <<kind, n, funcs, threads, flag, holder, poisoned, workers,
                   outOfOrder, joined, result, joinArg, termDone>>
    /\ UNCHANGED refs

\* faulty stores: the running-flag encoding, and a toggle
ThreadsStoreFalse == flag' = FALSE
ThreadsStoreToggle == flag' = ~flag

\* the store of TerminableThreads::terminate
ThreadsStore == flag' = TRUE

\* the store of the terminate of the group.rs / single.rs types
RunningStore == flag' = FALSE

\* TerminableThreads::terminate from the moment the lock is free:
\* lock().expect(..) panics on a poisoned Mutex, else store and unlock;
\* cont is what the caller of terminate does next
ThreadsTerminate(cont) ==
    /\ holder = 0
    /\ IF poisoned
       THEN /\ pc' = "terminate_panicked"
            /\ UNCHANGED <<flag, termDone, joined, result>>
       ELSE /\ ThreadsStore
            /\ termDone' = termDone + 1
            /\ cont

\* TerminableThreadGroup::terminate: if let Ok(b) = lock() { store }
GroupTerminate ==
    /\ holder = 0
    /\ IF poisoned THEN UNCHANGED flag ELSE RunningStore
    /\ termDone' = termDone + 1
    /\ pc' = "idle"
    /\ UNCHANGED <<joined, result>>

\* TerminableThreadGroupArray::terminate: if let Ok(b) = lock() { store }
ArrayTerminate ==
    /\ holder = 0
    /\ IF poisoned THEN UNCHANGED flag ELSE RunningStore
    /\ termDone' = termDone + 1
    /\ pc' = "idle"
    /\ UNCHANGED <<joined, result>>

\* TerminableThreadHandle::terminate: match lock() { Ok => store, Err => panic! }
HandleTerminate ==
    /\ holder = 0
    /\ IF poisoned
       THEN /\ pc' = "terminate_panicked"
            /\ UNCHANGED <<flag, termDone>>
       ELSE /\ RunningStore
            /\ termDone' = termDone + 1
            /\ pc' = "idle"
    /\ UNCHANGED <<joined, result>>

\* the terminate call in progress obtains the lock and completes
Terminate ==
    /\ pc = "terminating"
    /\ CASE kind = "Threads" ->
                ThreadsTerminate(pc' = "idle" /\ UNCHANGED <<joined, result>>)
         [] kind = "Group" -> GroupTerminate
         [] kind = "Array" -> ArrayTerminate
         [] kind = "Handle" -> HandleTerminate
    /\ UNCHANGED <<kind, n, funcs, threads, holder, poisoned, workers,
                   outOfOrder, joinArg>>
    /\ UNCHANGED refs

\* faulty aggregations: positions reversed, and match arms swapped
AggregateRev(js) ==
    LET k == Len(js)
        has_errs == \E i \in 1..k : ~js[i].ok
    IN IF ~has_errs
       THEN ResOk([i \in 1..k |-> js[k + 1 - i].val])
       ELSE ResErr([i \in 1..k |->
                       IF js[k + 1 - i].ok THEN None ELSE Some(js[k + 1 - i].val)])
AggregateSwapped(js) ==
    LET has_errs == \E i \in 1..Len(js) : ~js[i].ok
    IN IF ~has_errs
       THEN ResOk([i \in 1..Len(js) |-> js[i].val])
       ELSE ResErr([i \in 1..Len(js) |->
                       IF js[i].ok THEN Some(js[i].val) ELSE None])

\* the aggregation of TerminableThreads::join over the N joined results
Aggregate(js) ==
    LET has_errs == \E i \in 1..Len(js) : ~js[i].ok
    IN IF ~has_errs
       THEN ResOk([i \in 1..Len(js) |-> js[i].val])
       ELSE ResErr([i \in 1..Len(js) |->
                       IF js[i].ok THEN None ELSE Some(js[i].val)])

\* join starts mapping JoinHandle::join over the handles; with no handle it
\* returns at once
EnterJoin ==
    /\ joined' = <<>>
    /\ IF Len(threads) = 0
       THEN /\ pc' = "returned"
            /\ result' = IF kind = "Threads" THEN Aggregate(<<>>) ELSE ResOk(<<>>)
       ELSE /\ pc' = "joining"
            /\ result' = result

\* faulty join calls: signal_terminate ignored, and always taken as true
JoinCallNoSignal(sig) ==
    /\ pc = "idle"
    /\ sig => kind = "Threads"
    /\ joinArg' = BoolStr(sig)
    /\ EnterJoin
    /\ UNCHANGED <<kind, n, funcs, threads, flag, holder, poisoned, workers,
                   outOfOrder, termDone, refs>>
JoinCallAlwaysSignal(sig) ==
    /\ pc = "idle"
    /\ kind = "Threads"
    /\ joinArg' = BoolStr(sig)
    /\ pc' = "join_signal"
    /\ UNCHANGED <<kind, n, funcs, threads, flag, holder, poisoned, workers,
                   outOfOrder, joined, result, termDone, refs>>

\* join is called: TerminableThreads::join(self, signal_terminate) or
\* Join::join(self) of the other types
JoinCall(sig) ==
    /\ pc = "idle"
    /\ sig => kind = "Threads"
    /\ joinArg' = BoolStr(sig)
    /\ IF sig
       THEN /\ pc' = "join_signal"
            /\ UNCHANGED <<joined, result>>
       ELSE EnterJoin
    /\ UNCHANGED <<kind, n, funcs, threads, flag, holder, poisoned, workers,
                   outOfOrder, termDone>>
    /\ UNCHANGED refs

\* join(true): self.terminate() obtains the lock, then the joining starts
JoinSignal ==
    /\ pc = "join_signal"
    /\ ThreadsTerminate(EnterJoin)
    /\ UNCHANGED <<kind, n, funcs, threads, holder, poisoned, workers,
                   outOfOrder, joinArg>>
    /\ UNCHANGED refs

\* faulty join step: returns at the first Err without joining the rest
ThreadsJoinStepFailFast(r) ==
    LET js == Append(joined, r)
    IN /\ joined' = js
       /\ IF Len(js) = Len(threads) \/ ~r.ok
          THEN result' = Aggregate(js) /\ pc' = "returned"
          ELSE UNCHANGED <<result, pc>>

\* TerminableThreads::join, one handle: every result is kept, and after
\* the last one the results are aggregated
ThreadsJoinStep(r) ==
    LET js == Append(joined, r)
    IN /\ joined' = js
       /\ IF Len(js) = Len(threads)
          THEN result' = Aggregate(js) /\ pc' = "returned"
          ELSE UNCHANGED <<result, pc>>

\* TerminableThreadGroup::join, one handle: collect() into a Result stops
\* at the first Err and returns it
GroupJoinStep(r) ==
    LET js == Append(joined, r)
    IN IF ~r.ok
       THEN /\ result' = ResErr(<<Some(r.val)>>)
            /\ pc' = "returned"
            /\ UNCHANGED joined
       ELSE /\ joined' = js
            /\ IF Len(js) = Len(threads)
               THEN /\ result' = ResOk([i \in 1..Len(js) |-> js[i].val])
                    /\ pc' = "returned"
               ELSE UNCHANGED <<result, pc>>

\* TerminableThreadGroupArray::join, one handle: h.join().expect("")
ArrayJoinStep(r) ==
    LET js == Append(joined, r)
    IN IF ~r.ok
       THEN /\ pc' = "join_panicked"
            /\ UNCHANGED <<joined, result>>
       ELSE /\ joined' = js
            /\ IF Len(js) = Len(threads)
               THEN /\ result' = ResOk([i \in 1..Len(js) |-> js[i].val])
                    /\ pc' = "returned"
               ELSE UNCHANGED <<result, pc>>

\* faulty single join: unwraps the thread result
HandleJoinStepExpect(r) ==
    IF ~r.ok
    THEN /\ pc' = "join_panicked"
         /\ UNCHANGED <<joined, result>>
    ELSE /\ joined' = <<r>>
         /\ result' = ResOk(<<r.val>>)
         /\ pc' = "returned"

\* TerminableThreadHandle::join: self.inner_thread.join()
HandleJoinStep(r) ==
    /\ joined' = <<r>>
    /\ result' = IF r.ok THEN ResOk(<<r.val>>) ELSE ResErr(<<Some(r.val)>>)
    /\ pc' = "returned"

\* faulty join step: after a stop signal a running thread is given up
JoinStepInterrupting ==
    /\ pc = "joining"
    /\ LET w == threads[Len(joined) + 1]
           GivenUpResult(u) == IF IsFinished(u)
                              THEN IF workers[u].state = "returned"
                                   THEN Ok(workers[u].val)
                                   ELSE Err(workers[u].val)
                              ELSE Err(0)
       IN /\ IsFinished(w) \/ joinArg = "true"
          /\ CASE kind = "Threads" -> ThreadsJoinStep(GivenUpResult(w))
               [] kind = "Group" -> GroupJoinStep(GivenUpResult(w))
               [] kind = "Array" -> ArrayJoinStep(GivenUpResult(w))
               [] kind = "Handle" -> HandleJoinStep(GivenUpResult(w))
    /\ UNCHANGED <<kind, n, funcs, threads, flag, holder, poisoned, workers,
                   outOfOrder, joinArg, termDone>>
    /\ UNCHANGED refs

\* the join in progress gets the result of the next handle, which blocks
\* until that thread has finished
JoinStep ==
    /\ pc = "joining"
    /\ LET w == threads[Len(joined) + 1]
       IN /\ IsFinished(w)
          /\ CASE kind = "Threads" -> ThreadsJoinStep(ThreadResult(w))
               [] kind = "Group" -> GroupJoinStep(ThreadResult(w))
               [] kind = "Array" -> ArrayJoinStep(ThreadResult(w))
               [] kind = "Handle" -> HandleJoinStep(ThreadResult(w))
    /\ UNCHANGED <<kind, n, funcs, threads, flag, holder, poisoned, workers,
                   outOfOrder, joinArg, termDone>>
    /\ UNCHANGED refs

\* ------------------------------------------------------------------- Next
Next ==
    \/ \E nn \in 0..MaxN : BuilderNew(nn)
    \/ \E m \in Modes, f \in BOOLEAN : CallerSpawn(m, f)
    \/ \E ts \in Perms(n) : BuildWithThreads(ts)
    \/ \E fs \in FuncSeqs : GroupNew(fs)
    \/ \E fs \in FuncSeqs : ArrayNew(fs)
    \/ \E f \in Modes : HandleSpawn(f)
    \/ \E w \in 1..MaxN : WorkerLock(w)
    \/ \E w \in 1..MaxN : WorkerUnlock(w)
    \/ \E w \in 1..MaxN : WorkerReturn(w)
    \/ \E w \in 1..MaxN : WorkerPanic(w)
    \/ TerminateCall
    \/ Terminate
    \/ \E sig \in BOOLEAN : JoinCall(sig)
    \/ JoinSignal
    \/ JoinStep

Spec == Init /\ [][Next]_vars

\* a TerminableThreads group all of whose workers are cooperative closures:
\* each loops lock / load / unlock and returns once it has read true
CoopNext ==
    \/ \E nn \in 0..MaxN : BuilderNew(nn)
    \/ CallerSpawn("poll", TRUE)
    \/ \E ts \in Perms(n) : BuildWithThreads(ts)
    \/ \E w \in 1..MaxN : WorkerLock(w)
    \/ \E w \in 1..MaxN : WorkerUnlock(w)
    \/ \E w \in 1..MaxN : WorkerReturn(w)
    \/ TerminateCall
    \/ Terminate
    \/ \E sig \in BOOLEAN : JoinCall(sig)
    \/ JoinSignal
    \/ JoinStep

\* every thread that can take a step keeps running: a worker that can lock,
\* unlock or return does so, the supervisor goes on to join, and a thread
\* blocked in Mutex::lock gets the lock if it stays free.  std::sync::Mutex
\* promises no more: it hands the lock to whichever thread takes it first.
Fairness ==
    /\ \A w \in 1..MaxN : WF_vars(WorkerLock(w))
    /\ \A w \in 1..MaxN : WF_vars(WorkerUnlock(w))
    /\ \A w \in 1..MaxN : WF_vars(WorkerReturn(w))
    /\ WF_vars(Terminate)
    /\ WF_vars(JoinSignal)
    /\ WF_vars(JoinStep)
    /\ WF_vars(\E sig \in BOOLEAN : JoinCall(sig))

FairSpec == Init /\ [][CoopNext]_vars /\ Fairness

\* the same with a Mutex that never starves a waiting thread
HandoffFairness ==
    /\ Fairness
    /\ SF_vars(Terminate)
    /\ SF_vars(JoinSignal)

HandoffSpec == Init /\ [][CoopNext]_vars /\ HandoffFairness

TypeOK ==
    /\ kind \in {"none", "Threads", "Group", "Array", "Handle"}
    /\ flag \in BOOLEAN
    /\ holder \in 0..Len(workers)
    /\ Len(joined) <= Len(threads)

\* ----------------------------------------------------------------- claims
Panicked(w) == workers[w].state = "panicked"
Returned(w) == workers[w].state = "returned"

\* terminate(), or join(true), has been called
StopCalled ==
    \/ termDone > 0
    \/ pc \in {"terminating", "terminate_panicked", "join_signal"}
    \/ joinArg = "true"

\* C1: when TerminableThreads::join returns and all N workers returned
\* normally, the result is Ok of N values and position i holds the value of
\* the i-th handle passed to build_with_threads, whatever the completion
\* order and whatever signal_terminate was.
JoinOrderMatchesHandles ==
    (kind = "Threads" /\ pc = "returned"
        /\ \A w \in 1..Len(workers) : Returned(w))
    => result = ResOk([i \in 1..n |-> workers[threads[i]].val])

\* C1 witness: join(true) returned [42, 100] although the second handle's
\* thread finished before the first one's.
JoinOrderWitness ==
    /\ kind = "Threads" /\ pc = "returned" /\ joinArg = "true"
    /\ n = 2 /\ threads = <<1, 2>> /\ outOfOrder
    /\ result = ResOk(<<42, 100>>)

\* C2: a TerminableThreadGroup or TerminableThreadGroupArray made from N
\* functions starts one worker per function, and when the functions all
\* return their constants, join without terminate yields the N constants in
\* the order of the functions.
NewSpawnsAndJoinYieldsConstants ==
    kind \in {"Group", "Array"} =>
        /\ Len(workers) = Len(funcs)
        /\ (pc = "returned" /\ termDone = 0
               /\ \A i \in 1..Len(funcs) : funcs[i] = "const")
           => result = ResOk([i \in 1..Len(funcs) |-> Const(i)])

\* C3: when TerminableThreads::join returns, the result is Err exactly when
\* some worker panicked, and the Err value has N positions in handle order,
\* Some(payload) at the panicked workers and None at the others, hence at
\* least one Some.
JoinErrIsPerPosition ==
    (kind = "Threads" /\ pc = "returned") =>
        /\ result.tag \in {"Ok", "Err"}
        /\ (result.tag = "Err") <=> (\E i \in 1..n : Panicked(threads[i]))
        /\ result.tag = "Err" =>
              /\ Len(result.errs) = n
              /\ \A i \in 1..n :
                    result.errs[i] = IF Panicked(threads[i])
                                     THEN Some(workers[threads[i]].val)
                                     ELSE None
              /\ \E i \in 1..n : result.errs[i].some

\* C3 witness: a partial failure, first position normal, second abnormal.
JoinErrWitness ==
    /\ kind = "Threads" /\ pc = "returned" /\ n = 2
    /\ threads = <<1, 2>>
    /\ result = ResErr(<<None, Some(100)>>)

\* C4: when TerminableThreads::join returns, every one of the N workers has
\* finished and has been joined, also when an earlier one panicked.
JoinWaitsForAll ==
    (kind = "Threads" /\ pc = "returned") =>
        /\ Len(joined) = n
        /\ \A i \in 1..n : IsFinished(threads[i])

\* C4 witness: the worker at the first position panicked, the one at the
\* second position finished after it and returned normally.
JoinWaitsWitness ==
    /\ kind = "Threads" /\ pc = "returned" /\ n = 2
    /\ threads = <<1, 2>> /\ ~outOfOrder
    /\ result = ResErr(<<Some(42), None>>)

\* C5: the join of a TerminableThreadGroup or TerminableThreadGroupArray
\* never panics the calling thread, and returns Err when a worker panicked.
GroupJoinSurfacesFailure ==
    kind \in {"Group", "Array"} =>
        /\ pc # "join_panicked"
        /\ (pc = "returned" /\ \E w \in 1..Len(workers) : Panicked(w))
           => result.tag = "Err"

\* C6: terminate, and the terminate of join(true), never panic the calling
\* thread, whatever the workers did.
TerminateNeverPanics == pc # "terminate_panicked"

\* C7: once a TerminableThreads::terminate has returned, every load of the
\* flag by a worker yields true.
StopVisibleAfterTerminate ==
    [][\A w \in 1..Len(workers) :
          (kind = "Threads" /\ termDone > 0 /\ workers[w].mode = "poll"
              /\ workers[w].state = "running" /\ workers'[w].state = "locked")
          => workers'[w].read = "true"]_vars

\* C7 witness: a worker holds the lock and has read true after a terminate
\* that returned while the group was not being joined.
StopVisibleWitness ==
    /\ kind = "Threads" /\ termDone > 0 /\ pc = "idle"
    /\ \E w \in 1..Len(workers) :
          workers[w].state = "locked" /\ workers[w].read = "true"

\* C8: once the flag is in the stop-requested state, no step puts it back
\* into the continue state.
FlagMonotonic ==
    [][(kind # "none" /\ flag = StopRequested(kind))
          => flag' = StopRequested(kind)]_vars

\* C8 witness: the flag is stop-requested after two terminate calls and a
\* completed join.
FlagMonotonicWitness ==
    /\ kind = "Threads" /\ termDone >= 2 /\ pc = "returned"
    /\ flag = StopRequested(kind)

\* C9: a second terminate call returns without panicking and leaves the
\* flag, and everything else, as the first call left it.
SecondTerminateIsNoOp ==
    [][(pc = "terminating" /\ termDone >= 1 /\ pc' # "terminating")
          => (pc' = "idle" /\ flag' = flag /\ workers' = workers
                 /\ poisoned' = poisoned /\ threads' = threads)]_vars

\* C10: with cooperative workers only, once terminate or join(true) has
\* been called, every worker eventually returns and join eventually returns.
CooperativeWorkersStop ==
    StopCalled ~> (pc = "returned" /\ \A w \in 1..Len(workers) : Returned(w))

\* once a terminate has returned (the store is done), every worker
\* eventually returns and join eventually returns
StoredStopReachesWorkers ==
    (termDone > 0) ~> (pc = "returned" /\ \A w \in 1..Len(workers) : Returned(w))

\* C11: join(true) stores stop-requested exactly once, before it waits for
\* the first handle: the flag is true whenever such a join is waiting or has
\* returned, and of its steps exactly the one that enters the waiting
\* completes a terminate.
JoinTrueSignalsFirst ==
    /\ []((joinArg = "true" /\ pc \in {"joining", "returned"}) => flag = TRUE)
    /\ [][joinArg' = "true" =>
             termDone' - termDone =
                IF pc = "join_signal" /\ pc' \in {"joining", "returned"}
                THEN 1 ELSE 0]_vars

\* C11 witness: join(true) has stored once and waits for its first handle,
\* whose thread still runs.
JoinTrueSignalsWitness ==
    /\ joinArg = "true" /\ pc = "joining" /\ joined = <<>>
    /\ flag = TRUE /\ termDone = 1
    /\ workers[threads[1]].state = "running"

\* C12: a worker that never reads the flag is ended by nothing but its own
\* return, and when a join returns after a stop request this worker has
\* returned and its position holds its own value (or None in an Err report).
BestEffortCancellation ==
    /\ []((kind = "Threads" /\ pc = "returned" /\ StopCalled) =>
            \A i \in 1..n :
               workers[threads[i]].mode = "const" =>
                  /\ Returned(threads[i])
                  /\ IF result.tag = "Ok"
                     THEN result.vals[i] = workers[threads[i]].val
                     ELSE result.errs[i] = None)
    /\ [][\A w \in 1..Len(workers) :
             (workers[w].mode = "const" /\ workers[w].state = "running"
                 /\ workers'[w].state # "running")
             => (workers'[w].state = "returned" /\ pc' = pc /\ flag' = flag)]_vars

\* C12 witness: worker A honours the flag and returns 42, worker B ignores
\* it and returns 100; join(true) yields [42, 100].
BestEffortWitness ==
    /\ kind = "Threads" /\ pc = "returned" /\ joinArg = "true"
    /\ n = 2 /\ threads = <<1, 2>>
    /\ workers[1].mode = "poll" /\ workers[2].mode = "const"
    /\ result = ResOk(<<42, 100>>)

\* C13: the flag the group keeps and the flag handed to the workers are one
\* cell: the handle new() returned points to the builder's / group's cell,
\* and every worker of a TerminableThreadGroupArray points to the group's.
SharedFlagCell ==
    /\ kind = "Threads" => (refs.owned # 0 /\ refs.handed = refs.owned)
    /\ kind = "Array" =>
          \A w \in 1..Len(workers) :
             (workers[w].cell # 0 /\ workers[w].cell = refs.owned)

\* C13 witness: one terminate on an array group of two, and a worker of it
\* has read the value that terminate stored.
SharedFlagWitness ==
    /\ kind = "Array" /\ n = 2 /\ termDone = 1 /\ flag = FALSE
    /\ \E w \in 1..Len(workers) : workers[w].read = "false"

\* C14: every handle of a group that build_with_threads produced belongs to
\* a worker that was given the builder's flag.
BuilderGivesFlagToAll ==
    (kind = "Threads" /\ pc \notin {"start", "builder"}) =>
        \A i \in 1..n : workers[threads[i]].cell = refs.owned

\* C15: a terminate call never waits: it is never in progress while a
\* worker holds the flag's lock.
TerminateNeverWaits == pc = "terminating" => holder = 0

\* C16: TerminableThreadHandle::join never panics the caller, returns only
\* when its worker has finished, with Ok(value) if the worker returned and
\* Err(payload) if it panicked, and does not write the flag.
HandleJoinIsThreadResult ==
    /\ [](kind = "Handle" =>
            /\ pc # "join_panicked"
            /\ pc = "returned" =>
                  /\ IsFinished(1)
                  /\ result = IF Returned(1)
                              THEN ResOk(<<workers[1].val>>)
                              ELSE ResErr(<<Some(workers[1].val)>>))
    /\ [][(kind = "Handle" /\ pc \in {"idle", "joining"}
              /\ pc' \in {"joining", "returned"})
             => (flag' = flag /\ termDone' = termDone)]_vars

\* C16 witness: the worker panicked with payload 42 and join returned
\* Err(42), no terminate having been called.
HandleJoinWitness ==
    /\ kind = "Handle" /\ pc = "returned" /\ termDone = 0 /\ flag = TRUE
    /\ Panicked(1)
    /\ result = ResErr(<<Some(42)>>)

\* C17: whenever the terminate of a TerminableThreadGroup or
\* TerminableThreadGroupArray returns, the flag is stop-requested.
GroupTerminateAlwaysStores ==
    [][(kind \in {"Group", "Array"} /\ pc = "terminating" /\ pc' = "idle")
          => flag' = StopRequested(kind)]_vars

\* C18: on every handle type the flag is false from its creation until the
\* first terminate and true from then on.
FlagEncodingUniform == kind # "none" => (flag <=> termDone > 0)

\* C19: TerminableThreads::join(false) never writes the flag: no step of or
\* during such a join changes it.
JoinFalseKeepsFlag ==
    [][(kind = "Threads" /\ joinArg' = "false") => flag' = flag]_vars

\* C19 witness: join(false) returned [42, 100] and the flag is still in the
\* continue state.
JoinFalseWitness ==
    /\ kind = "Threads" /\ joinArg = "false" /\ pc = "returned"
    /\ n = 2 /\ termDone = 0 /\ flag = FALSE
    /\ result = ResOk(<<42, 100>>)

====
